---- MODULE Spec2Model ----
(***************************************************************************)
(* dphox/passive.py: the composite components DC, Cross, Array,            *)
(* WaveguideDevice, StraightGrating, FocusingGrating and TapDC.            *)
(*                                                                         *)
(* Python objects live in two heaps.  `port` is the heap of Port objects   *)
(* (a Port's identity is its index), `built` is the heap of Pattern and    *)
(* Device objects in the order their constructors were called; a           *)
(* constructor call that raised is kept as an entry whose `exc` names the  *)
(* exception and which owns nothing.  `calls` counts the constructor calls *)
(* the caller made.  Lengths are integers (one unit is a fixed fraction of *)
(* a micron); the input sets hold values for which the divisions of the    *)
(* code are exact.  A polygon is abstracted to its bounding box            *)
(* [x0, y0, x1, y1].  Pattern, Port, Device and the curve generators are   *)
(* defined in pattern.py, device.py and parametric.py; their operations    *)
(* follow the design document.                                             *)
(***************************************************************************)
EXTENDS Integers, Sequences, FiniteSets, TLC

VARIABLES port, built, calls

vars == <<port, built, calls>>

\* ---------------------------------------------------------------- bounds
\* Number of constructor calls the caller makes in one run.
MaxBuilt == 2

\* ---------------------------------------------------------------- inputs
WaveguideWidths == {2, 4}
WaveguideLengths == {8}
BendRadii == {5}
InterportDistances == {20}
GapWidths == {2, 20}
InteractionLengths == {10}
\* Optional[float]: <<>> is None, <<v>> is the value v.
CouplerWidths == {<<>>, <<6>>}

\* ---------------------------------------------------------------- helpers
Abs(n) == IF n < 0 THEN -n ELSE n

Min2(a, b) == IF a < b THEN a ELSE b

Max2(a, b) == IF a < b THEN b ELSE a

RECURSIVE MinOver(_, _)
MinOver(f, n) == IF n = 1 THEN f[1] ELSE Min2(f[n], MinOver(f, n - 1))

RECURSIVE MaxOver(_, _)
MaxOver(f, n) == IF n = 1 THEN f[1] ELSE Max2(f[n], MaxOver(f, n - 1))

\* The state of the two heaps, as a constructor takes and leaves it.
World(h, b) == [port |-> h, built |-> b]

\* A constructor call that raised: it leaves no object.
Raised(cls, exc, args) == [cls |-> cls, exc |-> exc, args |-> args]

\* ------------------------------------------------------- pattern.py (Port)
\* Port(x, y, a=0, w): a position, an orientation in degrees and a width.
Port(x, y, a, w) == [x |-> x, y |-> y, a |-> a, w |-> w]

TranslatePort(p, dx, dy) == [p EXCEPT !.x = @ + dx, !.y = @ + dy]

\* A rotation by 90 degrees about the origin.
Rotate90Port(p) == [p EXCEPT !.x = -p.y, !.y = p.x, !.a = (p.a + 90) % 360]

\* ---------------------------------------------------- pattern.py (Pattern)
Box(x0, y0, x1, y1) == [x0 |-> x0, y0 |-> y0, x1 |-> x1, y1 |-> y1]

\* The combined bounding box of a non-empty list of polygons.
Bounds(polys) ==
    Box(MinOver([k \in 1..Len(polys) |-> polys[k].x0], Len(polys)),
        MinOver([k \in 1..Len(polys) |-> polys[k].y0], Len(polys)),
        MaxOver([k \in 1..Len(polys) |-> polys[k].x1], Len(polys)),
        MaxOver([k \in 1..Len(polys) |-> polys[k].y1], Len(polys)))

\* Pattern.size: the extent of the combined bounding box.
Size(polys) == <<Bounds(polys).x1 - Bounds(polys).x0, Bounds(polys).y1 - Bounds(polys).y0>>

TranslateBox(b, dx, dy) == Box(b.x0 + dx, b.y0 + dy, b.x1 + dx, b.y1 + dy)

TranslatePolys(polys, dx, dy) == [k \in 1..Len(polys) |-> TranslateBox(polys[k], dx, dy)]

Rotate90Box(b) == Box(-b.y1, b.x0, -b.y0, b.x1)

Rotate90Polys(polys) == [k \in 1..Len(polys) |-> Rotate90Box(polys[k])]

\* Pattern.buffer(g): every polygon grown by g on all sides.
BufferPolys(polys, g) ==
    [k \in 1..Len(polys) |-> Box(polys[k].x0 - g, polys[k].y0 - g, polys[k].x1 + g, polys[k].y1 + g)]

\* The port names the components use, in a fixed order.
PortNames == <<"a0", "a1", "b0", "b1">>

NamesOf(pm) == SelectSeq(PortNames, LAMBDA nm : nm \in DOMAIN pm)

Rank(names, nm) == CHOOSE k \in 1..Len(names) : names[k] = nm

\* The Port objects a port mapping refers to.
PortIds(pm) == {pm[nm] : nm \in DOMAIN pm}

\* The Port heap with the objects ids translated, in place.
TranslatePorts(h, ids, dx, dy) ==
    [i \in 1..Len(h) |-> IF i \in ids THEN TranslatePort(h[i], dx, dy) ELSE h[i]]

\* The Port heap with the objects ids rotated by 90 degrees, in place.
Rotate90Ports(h, ids) ==
    [i \in 1..Len(h) |-> IF i \in ids THEN Rotate90Port(h[i]) ELSE h[i]]

\* Pattern.translate(dx, dy), in place: polygons and ports move together.
\* A pattern is a record with polys and port; w is a world, k the object.
TranslateObj(w, k, dx, dy) ==
    World(TranslatePorts(w.port, PortIds(w.built[k].port), dx, dy),
          [w.built EXCEPT ![k].polys = TranslatePolys(@, dx, dy)])

\* Pattern.rotate(90), in place, about the origin.
Rotate90Obj(w, k) ==
    World(Rotate90Ports(w.port, PortIds(w.built[k].port)),
          [w.built EXCEPT ![k].polys = Rotate90Polys(@)])

\* Pattern.align(): in place, the centre of the bounding box moves to the
\* origin; returns the pattern itself.
AlignObj(w, k) ==
    LET bb == Bounds(w.built[k].polys)
    IN  TranslateObj(w, k, -((bb.x0 + bb.x1) \div 2), -((bb.y0 + bb.y1) \div 2))

\* Pattern.copy: a deep copy, appended to the heaps; its ports are new Port
\* objects with the values of the original's.
CopyObj(w, k) ==
    LET pm == w.built[k].port
        names == NamesOf(pm)
        n == Len(w.port)
    IN  World(w.port \o [j \in 1..Len(names) |-> w.port[pm[names[j]]]],
              Append(w.built, [w.built[k] EXCEPT
                  !.port = [nm \in DOMAIN pm |-> n + Rank(names, nm)]]))

\* ------------------------------------------------- parametric.py (curves)
\* straight(l).path(w): a Pattern along the x axis from the origin, with the
\* ports a0 (facing back) and b0 at its two ends, of the path's width.
PathObj(w, l, wd) ==
    World(w.port \o <<Port(0, 0, 180, wd), Port(l, 0, 0, wd)>>,
          Append(w.built, [cls |-> "Pattern", exc |-> "",
                           polys |-> <<Box(0, -(wd \div 2), l, wd \div 2)>>,
                           port |-> [a0 |-> Len(w.port) + 1, b0 |-> Len(w.port) + 2]]))

\* A Pattern made of one box of the given extent and no ports: Box(extent).
BoxObj(w, ex, ey) ==
    World(w.port,
          Append(w.built, [cls |-> "Pattern", exc |-> "",
                           polys |-> <<Box(0, 0, ex, ey)>>, port |-> <<>>]))

\* Horizontal extent of one bend of the coupler trajectory.
BendExtent(radius, dy) == 2 * radius

\* dc(radius, dy, interaction_l, euler).path(w): bend in, interaction region,
\* bend out; the path starts at the origin and is displaced by dy in the
\* interaction region.
DcPath(radius, dy, interaction_l, wd) ==
    LET b == BendExtent(radius, dy)
        h == wd \div 2
    IN  << Box(0, Min2(0, dy) - h, b, Max2(0, dy) + h),
           Box(b, dy - h, b + interaction_l, dy + h),
           Box(b + interaction_l, Min2(0, dy) - h, 2 * b + interaction_l, Max2(0, dy) + h) >>

\* --------------------------------------------------------------------- DC
\* line 51: coupler_waveguide_w defaults to waveguide_w.
CouplerWaveguideW(waveguide_w, coupler_waveguide_w) ==
    IF coupler_waveguide_w = <<>> THEN waveguide_w ELSE coupler_waveguide_w[1]

\* line 52: dy = (interport_distance - gap_w - coupler_waveguide_w) / 2.
DCdy(interport_distance, gap_w, cw) == (interport_distance - gap_w - cw) \div 2

\* A DC that rejected a gap as large as the interport distance.
DCValidationRejects(interport_distance, gap_w) ==
    IF gap_w >= interport_distance THEN "ValueError" ELSE ""

\* Lines 50-57 check nothing: the exception DC.__post_init__ raises for its
\* parameters, "" for none.
DCValidation(interport_distance, gap_w) == ""

\* The ports with the left ends not reversed.
DCPortsNotReversed(size_x, interport_distance, waveguide_w) ==
    << Port(0, 0, 0, waveguide_w),
       Port(0, interport_distance, 0, waveguide_w),
       Port(size_x, 0, 0, waveguide_w),
       Port(size_x, interport_distance, 0, waveguide_w) >>

\* lines 59-62: the four ports of the DC, in the order a0, a1, b0, b1.
DCPorts(size_x, interport_distance, waveguide_w) ==
    << Port(0, 0, -180, waveguide_w),
       Port(0, interport_distance, -180, waveguide_w),
       Port(size_x, 0, 0, waveguide_w),
       Port(size_x, interport_distance, 0, waveguide_w) >>

\* DC.__post_init__
DCPostInit(w, waveguide_w, bend_radius, interport_distance, gap_w, interaction_l, coupler_waveguide_w) ==
    LET cw == CouplerWaveguideW(waveguide_w, coupler_waveguide_w)
        dy == DCdy(interport_distance, gap_w, cw)
        lower == DcPath(bend_radius, dy, interaction_l, waveguide_w)
        upper == TranslatePolys(DcPath(bend_radius, -dy, interaction_l, waveguide_w),
                                0, interport_distance)
        ps == DCPorts(Size(lower \o upper)[1], interport_distance, waveguide_w)
        n == Len(w.port)
        e == DCValidation(interport_distance, gap_w)
    IN  IF e # ""
        THEN World(w.port, Append(w.built, Raised("DC", e,
                 [interport_distance |-> interport_distance, gap_w |-> gap_w])))
        ELSE World(
                 \* lines 63-64: the two paths get copies of the ports
                 w.port \o ps \o <<ps[1], ps[3], ps[2], ps[4]>>,
                 Append(w.built,
                     [cls |-> "DC", exc |-> "",
                      polys |-> lower \o upper,
                      port |-> [a0 |-> n + 1, a1 |-> n + 2, b0 |-> n + 3, b1 |-> n + 4],
                      lower_path |-> [polys |-> lower, port |-> [a0 |-> n + 5, b0 |-> n + 6]],
                      upper_path |-> [polys |-> upper, port |-> [a0 |-> n + 7, b0 |-> n + 8]],
                      waveguide_w |-> waveguide_w,
                      interport_distance |-> interport_distance,
                      gap_w |-> gap_w, coupler_waveguide_w |-> cw, dy |-> dy]))

\* ------------------------------------------------------------------ Cross
\* The vertical arm made by rotating the waveguide itself, without a copy.
CrossVerticalInPlace(w, k) ==
    [world |-> Rotate90Obj(AlignObj(w, k), k), v |-> k]

\* line 93: vertical = self.waveguide.align().copy.rotate(90).  v is the
\* index of the vertical arm.
CrossVertical(w, k) ==
    LET c == CopyObj(AlignObj(w, k), k)
    IN  [world |-> Rotate90Obj(c, Len(c.built)), v |-> Len(c.built)]

\* lines 95-98: the Port objects the Cross exposes; h and v are the port
\* mappings of the horizontal and the vertical arm.
CrossPorts(h, v) == [a0 |-> h.a0, a1 |-> v.a0, b0 |-> h.b0, b1 |-> v.b0]

\* Cross.__post_init__; k is self.waveguide.
CrossPostInit(w, k) ==
    LET \* line 92: horizontal = self.waveguide.align() is the waveguide itself
        r == CrossVertical(AlignObj(w, k), k)
        b == r.world.built
    IN  World(r.world.port,
              Append(b, [cls |-> "Cross", exc |-> "",
                         polys |-> b[k].polys \o b[r.v].polys,
                         port |-> CrossPorts(b[k].port, b[r.v].port),
                         waveguide |-> k, vertical |-> r.v]))

\* ------------------------------------------------------------------ Array
\* Python values of the pitch argument: None, an int, a float, a tuple of
\* numbers.  n is the value of a number, s the elements of a tuple.
NoneV == [t |-> "none", n |-> 0, s |-> <<>>]

IntV(n) == [t |-> "int", n |-> n, s |-> <<>>]

FloatV(n) == [t |-> "float", n |-> n, s |-> <<>>]

\* An element of a tuple: a number and its type.
Elt(x) == [t |-> x.t, n |-> x.n]

TupleV(s) == [t |-> "tuple", n |-> 0, s |-> s]

IsNumber(x) == x.t \in {"int", "float"}

RECURSIVE Repeat(_, _)
Repeat(s, i) == IF i <= 0 THEN <<>> ELSE s \o Repeat(s, i - 1)

\* Python's i * x for an int i: a product for a number, a repetition for a
\* tuple, a TypeError for None.
PyMul(i, x) ==
    CASE x.t = "int" -> IntV(i * x.n)
      [] x.t = "float" -> FloatV(i * x.n)
      [] x.t = "tuple" -> TupleV(Repeat(x.s, i))
      [] OTHER -> [t |-> "TypeError", n |-> 0, s |-> <<>>]

\* line 122: a float pitch becomes the pair of it; anything else is kept.
NormalisePitch(pitch) == IF pitch.t = "float" THEN TupleV(<<Elt(pitch), Elt(pitch)>>) ELSE pitch

\* line 123: the arguments of translate for the grid index (i, j).
TranslateArgs(pitch, i, j) == [dx |-> PyMul(i, pitch), dy |-> PyMul(j, pitch)]

\* Pattern.translate takes two numbers.
TranslateAccepts(a) == IsNumber(a.dx) /\ IsNumber(a.dy)

\* lines 123-126: the grid indices in the order of the comprehension.
GridIndex(grid_shape, k) == <<(k - 1) \div grid_shape[2], (k - 1) % grid_shape[2]>>

\* Array.__post_init__; u is self.unit.
ArrayPostInit(w, u, grid_shape, pitch_in) ==
    LET pitch == NormalisePitch(pitch_in)
        count == grid_shape[1] * grid_shape[2]
        targs == [k \in 1..count |->
                     TranslateArgs(pitch, GridIndex(grid_shape, k)[1], GridIndex(grid_shape, k)[2])]
        ok == \A k \in 1..count : TranslateAccepts(targs[k])
        unit == w.built[u].polys
        copies == [k \in 1..(count * Len(unit)) |->
                      LET c == targs[((k - 1) \div Len(unit)) + 1]
                      IN  TranslateBox(unit[((k - 1) % Len(unit)) + 1], c.dx.n, c.dy.n)]
    IN  World(w.port,
              Append(w.built,
                  [cls |-> "Array", exc |-> IF ok THEN "" ELSE "TypeError",
                   unit |-> u, grid_shape |-> grid_shape,
                   pitch_in |-> pitch_in, pitch |-> pitch,
                   \* the translate call that raised, or all of them
                   translate_args |-> IF ok THEN targs ELSE <<targs[1]>>,
                   polys |-> IF ok THEN copies ELSE <<>>,
                   port |-> <<>>]))

\* -------------------------------------------------------------- device.py
\* Whether the object is a Device: it holds (pattern, layer) entries rather
\* than polygons of its own.
IsDevice(o) == o.cls \in {"WaveguideDevice", "StraightGrating", "FocusingGrating"}

\* The polygons of an object: its own, or those of a Device's members.
RECURSIVE PolysOf(_, _)
PolysOf(b, k) ==
    IF IsDevice(b[k])
    THEN LET F[j \in 0..Len(b[k].entries)] ==
                 IF j = 0 THEN <<>> ELSE F[j - 1] \o PolysOf(b, b[k].entries[j].pat)
         IN  F[Len(b[k].entries)]
    ELSE b[k].polys

\* translate(dx, dy) of a Pattern or a Device, in place: a Device moves every
\* member and its own ports.
RECURSIVE TranslateAny(_, _, _, _)
TranslateAny(w, k, dx, dy) ==
    IF IsDevice(w.built[k])
    THEN LET es == w.built[k].entries
             F[j \in 0..Len(es)] ==
                 IF j = 0 THEN w ELSE TranslateAny(F[j - 1], es[j].pat, dx, dy)
             m == F[Len(es)]
         IN  World(TranslatePorts(m.port, PortIds(m.built[k].port), dx, dy), m.built)
    ELSE TranslateObj(w, k, dx, dy)

\* halign(x, left): in place, the left (or right) edge of the combined
\* bounding box moves to x.
Halign(w, k, x, left) ==
    LET bb == Bounds(PolysOf(w.built, k))
    IN  TranslateAny(w, k, x - (IF left THEN bb.x0 ELSE bb.x1), 0)

\* A new Pattern made of the given polygons, with no ports.
PolysObj(w, polys) ==
    World(w.port, Append(w.built, [cls |-> "Pattern", exc |-> "", polys |-> polys, port |-> <<>>]))

\* -------------------------------------------------------- WaveguideDevice
\* lines 152-153: the (pattern, layer) entries; slab is <<>> for None.
WaveguideDeviceEntries(r, slab) ==
    <<[pat |-> r, layer |-> "RIDGE_SI"]>>
        \o (IF slab # <<>> THEN <<[pat |-> slab[1], layer |-> "RIB_SI"]>> ELSE <<>>)

\* The ports taken from the last entry: the slab's, when there is one.
WaveguideDevicePortSourceLast(r, slab) == IF slab # <<>> THEN slab[1] ELSE r

\* line 155: the pattern whose a0 and b0 the device copies.
WaveguideDevicePortSource(r, slab) == r

\* WaveguideDevice.__post_init__; r is ridge_waveguide, slab slab_waveguide.
WaveguideDevicePostInit(w, r, slab) ==
    LET src == w.built[WaveguideDevicePortSource(r, slab)].port
        n == Len(w.port)
        args == [ridge_waveguide |-> r, slab_waveguide |-> slab]
    IN  IF ~({"a0", "b0"} \subseteq DOMAIN src)
        THEN World(w.port, Append(w.built, Raised("WaveguideDevice", "KeyError", args)))
        ELSE World(w.port \o <<w.port[src.a0], w.port[src.b0]>>,
                   Append(w.built,
                       [cls |-> "WaveguideDevice", exc |-> "",
                        entries |-> WaveguideDeviceEntries(r, slab),
                        port |-> [a0 |-> n + 1, b0 |-> n + 2],
                        ridge_waveguide |-> r, slab_waveguide |-> slab]))

\* ---------------------------------------------------------------- gratings
\* A duty cycle is a fraction <<numerator, denominator>>.
\* A grating that rejected a duty cycle outside the open interval (0, 1).
DutyCycleValidationRejects(duty_cycle) ==
    IF duty_cycle[1] <= 0 \/ duty_cycle[1] >= duty_cycle[2] THEN "ValueError" ELSE ""

\* Neither grating checks its duty cycle: the exception raised for it, ""
\* for none.
DutyCycleValidation(duty_cycle) == ""

\* line 186: stripe_w = pitch * (1 - duty_cycle).
StripeW(pitch, duty_cycle) == (pitch * (duty_cycle[2] - duty_cycle[1])) \div duty_cycle[2]

\* Box(extent).hstack(waveguide): the box, to the right of the waveguide and
\* centred on its axis.
HstackBox(extent, wgpolys) ==
    LET bb == Bounds(wgpolys)
        cy == (bb.y0 + bb.y1) \div 2
    IN  Box(bb.x1, cy - (extent[2] \div 2), bb.x1 + extent[1], cy + (extent[2] \div 2))

\* striped(stripe_w, (pitch, 0)): stripes of width stripe_w, one per pitch.
Striped(bx, stripe_w, pitch) ==
    [k \in 1..((bx.x1 - bx.x0) \div pitch) |->
        Box(bx.x0 + (k - 1) * pitch, bx.y0, bx.x0 + (k - 1) * pitch + stripe_w, bx.y1)]

\* StraightGrating.__post_init__; g is self.waveguide.
StraightGratingPostInit(w, extent, g, pitch, duty_cycle, rib_grow) ==
    LET e == DutyCycleValidation(duty_cycle)
        stripe_w == StripeW(pitch, duty_cycle)
        bx == HstackBox(extent, w.built[g].polys)
        w1 == PolysObj(w, BufferPolys(<<bx>>, rib_grow))
        w2 == PolysObj(w1, Striped(bx, stripe_w, pitch))
        n == Len(w.port)
    IN  IF e # ""
        THEN World(w.port, Append(w.built, Raised("StraightGrating", e, [duty_cycle |-> duty_cycle])))
        ELSE World(w2.port \o <<w.port[w.built[g].port.a0]>>,
                   Append(w2.built,
                       [cls |-> "StraightGrating", exc |-> "",
                        stripe_w |-> stripe_w, pitch |-> pitch, duty_cycle |-> duty_cycle,
                        entries |-> << [pat |-> Len(w1.built), layer |-> "RIB_SI"],
                                       [pat |-> Len(w2.built), layer |-> "RIDGE_SI"],
                                       [pat |-> g, layer |-> "RIDGE_SI"] >>,
                        port |-> [a0 |-> n + 1],
                        waveguide |-> g]))

\* tan(radians(angle) / 2) as a fraction <<numerator, denominator>>, for the
\* opening angles of the model: 127 stands for 2*atan(2), of 126.87 degrees.
TanHalf(angle) ==
    CASE angle = 90 -> <<1, 1>>
      [] angle = -90 -> <<-1, 1>>
      [] angle = 127 -> <<2, 1>>

\* The offset of half the width: abs(w / (2 * tan(radians(angle) / 2))).
StubOffsetHalfWidth(wd, angle) == Abs((wd * TanHalf(angle)[2]) \div (2 * TanHalf(angle)[1]))

\* line 240: abs(w / tan(radians(angle) / 2)), where the right edge of the
\* waveguide stub is put.
StubOffset(wd, angle) == Abs((wd * TanHalf(angle)[2]) \div TanHalf(angle)[1])

\* grating_arc(angle, duty_cycle, ..., m): the arc of period m, of radius 2m
\* about the origin and as thick as the duty cycle's share of the period.
GratingArc(angle, duty_cycle, m) ==
    Box(2 * m - ((2 * duty_cycle[1]) \div duty_cycle[2]), -(2 * m), 2 * m, 2 * m)

\* line 236: the sector from the apex at the origin to the first arc.
Sector(arc) == Box(0, arc.y0, arc.x1, arc.y1)

\* FocusingGrating.__post_init__
FocusingGratingPostInit(w, angle, waveguide_w, waveguide_l, duty_cycle, min_period, num_periods, rib_grow) ==
    LET e == DutyCycleValidation(duty_cycle)
        \* lines 233-235
        arcs == [j \in 1..num_periods |-> GratingArc(angle, duty_cycle, min_period + j - 1)]
        \* lines 236-237
        w1 == PolysObj(w, arcs \o <<Sector(arcs[1])>>)
        grating == Len(w1.built)
        \* lines 238-239
        w2 == PathObj(w1, waveguide_l, waveguide_w)
        w3 == WaveguideDevicePostInit(w2, Len(w2.built), <<>>)
        wg == Len(w3.built)
        \* line 240
        w4 == Halign(w3, wg, StubOffset(w3.port[w3.built[wg].port.b0].w, angle), FALSE)
        \* lines 241-243
        w5 == PolysObj(w4, BufferPolys(w4.built[grating].polys, rib_grow))
        fg == Len(w5.built) + 1
        \* line 244
        w6 == World(w5.port \o <<w5.port[w5.built[wg].port.a0]>>,
                    Append(w5.built,
                        [cls |-> "FocusingGrating", exc |-> "",
                         angle |-> angle, waveguide_w |-> waveguide_w,
                         duty_cycle |-> duty_cycle,
                         arcs |-> [j \in 1..num_periods |->
                                      [m |-> min_period + j - 1, duty_cycle |-> duty_cycle]],
                         entries |-> << [pat |-> Len(w5.built), layer |-> "RIB_SI"],
                                        [pat |-> grating, layer |-> "RIDGE_SI"],
                                        [pat |-> wg, layer |-> ""] >>,
                         port |-> [a0 |-> Len(w5.port) + 1],
                         waveguide |-> wg, grating |-> grating]))
    IN  IF e # ""
        THEN World(w.port, Append(w.built, Raised("FocusingGrating", e, [duty_cycle |-> duty_cycle])))
        \* line 245
        ELSE Halign(w6, fg, 0, TRUE)

\* ------------------------------------------------------------------ TapDC
\* The fields the TapDC dataclass declares (lines 257-258).
TapDCFields == {"dc", "grating"}

\* The attribute lines 261 and 262 read.
TapDCGratingAttr == "grating_pad"

\* TapDC.__post_init__: line 261 reads an attribute the object does not
\* have, so lines 262-267 are never reached; with the attribute, lines
\* 263-265 would expose the DC's own a0 and b0.
TapDCPostInit(w, d, g) ==
    IF TapDCGratingAttr \notin TapDCFields
    THEN World(w.port, Append(w.built, Raised("TapDC", "AttributeError", [dc |-> d, grating |-> g])))
    ELSE World(w.port, Append(w.built,
             [cls |-> "TapDC", exc |-> "", polys |-> w.built[d].polys,
              port |-> [a0 |-> w.built[d].port.a0, b0 |-> w.built[d].port.b0],
              dc |-> d, grating |-> g]))

\* ---------------------------------------------------------------- inputs
Pitches ==
    {IntV(3), FloatV(3), TupleV(<<Elt(FloatV(3)), Elt(FloatV(5))>>),
     TupleV(<<Elt(FloatV(3)), Elt(FloatV(3))>>), TupleV(<<Elt(IntV(3)), Elt(IntV(3))>>)}

GridShapes == {<<1, 1>>, <<2, 3>>}

UnitExtents == {<<2, 4>>}

GratingExtents == {<<6, 4>>}

GratingPitches == {2}

DutyCycles == {<<1, 2>>, <<0, 1>>, <<1, 1>>, <<3, 2>>}

FocusingDutyCycles == {<<1, 2>>, <<3, 2>>}

TapAngles == {90}

OpeningAngles == {90, 127, -90}

RibGrows == {1}

MinPeriods == {1}

NumPeriods == {2}

\* ---------------------------------------------------------------- actions
Leaves(w) ==
    /\ port' = w.port
    /\ built' = w.built
    /\ calls' = calls + 1

NewDC(waveguide_w, bend_radius, interport_distance, gap_w, interaction_l, coupler_waveguide_w) ==
    /\ calls < MaxBuilt
    /\ Leaves(DCPostInit(World(port, built), waveguide_w, bend_radius, interport_distance,
                         gap_w, interaction_l, coupler_waveguide_w))

\* Cross(waveguide) for a waveguide straight(l).path(wd) the caller made.
NewCross(l, wd) ==
    /\ calls < MaxBuilt
    /\ Leaves(CrossPostInit(PathObj(World(port, built), l, wd), Len(built) + 1))

\* Array(unit, grid_shape, pitch) for a unit Box(extent) the caller made.
NewArray(ex, ey, grid_shape, pitch) ==
    /\ calls < MaxBuilt
    /\ Leaves(ArrayPostInit(BoxObj(World(port, built), ex, ey), Len(built) + 1, grid_shape, pitch))

\* WaveguideDevice(ridge) for a ridge waveguide the caller made.
NewWaveguideDevice(l, wd) ==
    /\ calls < MaxBuilt
    /\ Leaves(WaveguideDevicePostInit(PathObj(World(port, built), l, wd), Len(built) + 1, <<>>))

\* WaveguideDevice(ridge, slab) for two waveguides the caller made.
NewRibWaveguideDevice(l, wd, sl, swd) ==
    /\ calls < MaxBuilt
    /\ Leaves(WaveguideDevicePostInit(
                  PathObj(PathObj(World(port, built), l, wd), sl, swd),
                  Len(built) + 1, <<Len(built) + 2>>))

\* WaveguideDevice(ridge) for a ridge pattern without ports.
NewPortlessWaveguideDevice(ex, ey) ==
    /\ calls < MaxBuilt
    /\ Leaves(WaveguideDevicePostInit(BoxObj(World(port, built), ex, ey), Len(built) + 1, <<>>))

\* StraightGrating(extent, waveguide, pitch, duty_cycle, rib_grow) for a
\* waveguide the caller made.
NewStraightGrating(extent, l, wd, pitch, duty_cycle, rib_grow) ==
    /\ calls < MaxBuilt
    /\ Leaves(StraightGratingPostInit(PathObj(World(port, built), l, wd), extent,
                                      Len(built) + 1, pitch, duty_cycle, rib_grow))

NewFocusingGrating(angle, waveguide_w, waveguide_l, duty_cycle, min_period, num_periods, rib_grow) ==
    /\ calls < MaxBuilt
    /\ Leaves(FocusingGratingPostInit(World(port, built), angle, waveguide_w, waveguide_l,
                                      duty_cycle, min_period, num_periods, rib_grow))

\* TapDC(dc, grating) for a DC and a focusing grating the caller made.
NewTapDC(waveguide_w, bend_radius, interport_distance, gap_w, interaction_l, angle, waveguide_l) ==
    /\ calls < MaxBuilt
    /\ LET w1 == DCPostInit(World(port, built), waveguide_w, bend_radius, interport_distance,
                            gap_w, interaction_l, <<>>)
           w2 == FocusingGratingPostInit(w1, angle, waveguide_w, waveguide_l, <<1, 2>>, 1, 1, 1)
       IN  /\ w1.built[Len(w1.built)].exc = ""
           /\ w2.built[Len(w2.built)].exc = ""
           /\ Leaves(TapDCPostInit(w2, Len(w1.built), Len(w2.built)))

Init ==
    /\ port = <<>>
    /\ built = <<>>
    /\ calls = 0

Next ==
    \/ \E w \in WaveguideWidths, r \in BendRadii, d \in InterportDistances,
          g \in GapWidths, l \in InteractionLengths, cw \in CouplerWidths :
            NewDC(w, r, d, g, l, cw)
    \/ \E l \in WaveguideLengths, wd \in WaveguideWidths : NewCross(l, wd)
    \/ \E e \in UnitExtents, gs \in GridShapes, p \in Pitches :
            NewArray(e[1], e[2], gs, p)
    \/ \E l \in WaveguideLengths, wd \in WaveguideWidths : NewWaveguideDevice(l, wd)
    \/ \E l \in WaveguideLengths, wd \in WaveguideWidths :
            NewRibWaveguideDevice(l, wd, l + 2, wd + 2)
    \/ \E e \in UnitExtents : NewPortlessWaveguideDevice(e[1], e[2])
    \/ \E e \in GratingExtents, l \in WaveguideLengths, wd \in WaveguideWidths,
          p \in GratingPitches, dc \in DutyCycles, rg \in RibGrows :
            NewStraightGrating(e, l, wd, p, dc, rg)
    \/ \E a \in OpeningAngles, wd \in WaveguideWidths, l \in WaveguideLengths,
          dc \in FocusingDutyCycles, mp \in MinPeriods, np \in NumPeriods, rg \in RibGrows :
            NewFocusingGrating(a, wd, l, dc, mp, np, rg)
    \/ \E w \in WaveguideWidths, r \in BendRadii, d \in InterportDistances,
          g \in GapWidths, l \in InteractionLengths, a \in TapAngles,
          wl \in WaveguideLengths :
            NewTapDC(w, r, d, g, l, a, wl)

Spec == Init /\ [][Next]_vars

\* ----------------------------------------------------------------- claims
\* The objects of a class whose constructor returned.
Objects(cls) == {k \in 1..Len(built) : built[k].cls = cls /\ built[k].exc = ""}

\* The constructor calls of a class, returned or raised.
Calls(cls) == {k \in 1..Len(built) : built[k].cls = cls}

\* C1: every DC built with interport distance D and waveguide width w has
\* a0 at (0, 0) and a1 at (0, D), both reversed (180 degrees mod 360), and
\* b0 at (size_x, 0) and b1 at (size_x, D) with orientation 0, size_x the
\* width of the combined bounding box; all four ports have width w.
C1_DCPorts ==
    \A k \in Objects("DC") :
        LET o == built[k]
            sx == Bounds(o.polys).x1 - Bounds(o.polys).x0
            D == o.interport_distance
            P(nm) == port[o.port[nm]]
        IN  /\ DOMAIN o.port = {"a0", "a1", "b0", "b1"}
            /\ P("a0").x = 0 /\ P("a0").y = 0 /\ P("a0").a % 360 = 180
            /\ P("a1").x = 0 /\ P("a1").y = D /\ P("a1").a % 360 = 180
            /\ P("b0").x = sx /\ P("b0").y = 0 /\ P("b0").a % 360 = 0
            /\ P("b1").x = sx /\ P("b1").y = D /\ P("b1").a % 360 = 0
            /\ \A nm \in DOMAIN o.port : P(nm).w = o.waveguide_w

\* A DC whose coupler width differs from its waveguide width was built.
C1_Witness ==
    \E k \in Objects("DC") :
        /\ built[k].coupler_waveguide_w # built[k].waveguide_w
        /\ port[built[k].port.b1].x > 0
        /\ port[built[k].port.b1].y = built[k].interport_distance

\* C2, as stated: a DC with gap_w >= interport_distance is rejected at
\* construction, so no DC object with such a gap exists.
C2_Original ==
    \A k \in Objects("DC") : built[k].gap_w < built[k].interport_distance

\* C2, amended: DC.__post_init__ rejects nothing.  With gap_w >=
\* interport_distance the offset dy = (D - gap_w - coupler_w) / 2 is
\* negative, both paths (three polygons each) are built bending away from
\* each other, and the DC has its four ports.
C2_NoValidation ==
    \A k \in Calls("DC") :
        /\ built[k].exc = ""
        /\ built[k].gap_w >= built[k].interport_distance =>
            /\ 2 * built[k].dy = built[k].interport_distance - built[k].gap_w
                                    - built[k].coupler_waveguide_w
            /\ built[k].dy < 0
            /\ Len(built[k].polys) = 6
            /\ Bounds(built[k].lower_path.polys).y0 < -(built[k].waveguide_w \div 2)
            /\ DOMAIN built[k].port = {"a0", "a1", "b0", "b1"}

\* A DC with gap_w >= interport_distance was built.
C2_Witness ==
    \E k \in Objects("DC") :
        /\ built[k].gap_w >= built[k].interport_distance
        /\ built[k].dy < 0

\* C3: TapDC(dc, grating) for a valid DC and a grating completes and exposes
\* exactly a0 and b0, the DC's own a0 and b0.
C3_TapDCCompletes ==
    \A k \in Calls("TapDC") :
        LET d == IF built[k].exc = "" THEN built[k].dc ELSE built[k].args.dc
        IN  built[d].gap_w < built[d].interport_distance =>
                /\ built[k].exc = ""
                /\ DOMAIN built[k].port = {"a0", "b0"}
                /\ port[built[k].port.a0] = port[built[d].port.a0]
                /\ port[built[k].port.b0] = port[built[d].port.b0]

\* C4: an Array with grid_shape (m, n) and pitch (px, py) holds m*n copies
\* of the unit, the copy for (i, j) translated by (i*px, j*py), in a
\* bounding box of width (m-1)*px + unit_width and height (n-1)*py +
\* unit_height.
C4_ArrayTiling ==
    \A k \in Calls("Array") :
        LET o == built[k]
            unit == built[o.unit].polys
            m == o.grid_shape[1]
            n == o.grid_shape[2]
        IN  o.pitch_in.t = "tuple" =>
                LET px == o.pitch_in.s[1].n
                    py == o.pitch_in.s[2].n
                IN  /\ \A q \in 1..Len(o.translate_args) :
                          /\ IsNumber(o.translate_args[q].dx)
                          /\ IsNumber(o.translate_args[q].dy)
                          /\ o.translate_args[q].dx.n = GridIndex(o.grid_shape, q)[1] * px
                          /\ o.translate_args[q].dy.n = GridIndex(o.grid_shape, q)[2] * py
                    /\ o.exc = ""
                    /\ Len(o.translate_args) = m * n
                    /\ Len(o.polys) = m * n * Len(unit)
                    /\ \A i \in 0..(m - 1), j \in 0..(n - 1), q \in 1..Len(unit) :
                          o.polys[(i * n + j) * Len(unit) + q]
                              = TranslateBox(unit[q], i * px, j * py)
                    /\ Size(o.polys)[1] = (m - 1) * px + Size(unit)[1]
                    /\ Size(o.polys)[2] = (n - 1) * py + Size(unit)[2]

\* C5: an Array with a scalar pitch p is the Array with the pitch (p, p),
\* for the same unit and grid_shape.
C5_ScalarPitch ==
    \A a \in Calls("Array"), b \in Calls("Array") :
        ( /\ IsNumber(built[a].pitch_in)
          /\ built[b].pitch_in = TupleV(<<Elt(built[a].pitch_in), Elt(built[a].pitch_in)>>)
          /\ built[a].grid_shape = built[b].grid_shape
          /\ built[built[a].unit].polys = built[built[b].unit].polys )
        => /\ built[a].exc = built[b].exc
           /\ built[a].polys = built[b].polys

\* C6: a WaveguideDevice has exactly the ports a0 and b0, equal to the ridge
\* waveguide's; no port of the slab is among them; it has one entry without
\* a slab and two, ridge then slab, with one.
C6_WaveguideDevicePorts ==
    \A k \in Objects("WaveguideDevice") :
        LET o == built[k]
            r == built[o.ridge_waveguide]
        IN  /\ DOMAIN o.port = {"a0", "b0"}
            /\ port[o.port.a0] = port[r.port.a0]
            /\ port[o.port.b0] = port[r.port.b0]
            /\ o.entries[1] = [pat |-> o.ridge_waveguide, layer |-> "RIDGE_SI"]
            /\ IF o.slab_waveguide = <<>>
               THEN Len(o.entries) = 1
               ELSE /\ Len(o.entries) = 2
                    /\ o.entries[2] = [pat |-> o.slab_waveguide[1], layer |-> "RIB_SI"]
                    /\ PortIds(o.port) \cap PortIds(built[o.slab_waveguide[1]].port) = {}

\* A WaveguideDevice with a slab waveguide was built.
C6_Witness ==
    \E k \in Objects("WaveguideDevice") :
        /\ built[k].slab_waveguide # <<>>
        /\ port[built[k].port.b0].x > 0

\* The distance from the apex of the sector to the b0 end of the stub.
StubSeparation(k) ==
    LET g == built[built[k].grating].polys
    IN  port[built[built[k].waveguide].port.b0].x - g[Len(g)].x0

\* C7, as stated: the b0 end of the stub is w / (2*tan(theta/2)) from the
\* apex (in magnitude, for an angle of either sign).
C7_Original ==
    \A k \in Objects("FocusingGrating") :
        StubSeparation(k) * 2 * Abs(TanHalf(built[k].angle)[1])
            = built[k].waveguide_w * TanHalf(built[k].angle)[2]

\* C7, amended: the b0 end of the stub is abs(w / tan(theta/2)) from the
\* apex, on its right.
C7_StubSeparation ==
    \A k \in Objects("FocusingGrating") :
        /\ StubSeparation(k) > 0
        /\ StubSeparation(k) * Abs(TanHalf(built[k].angle)[1])
              = built[k].waveguide_w * TanHalf(built[k].angle)[2]

\* A FocusingGrating whose tan(theta/2) is not 1 was built and moved by the
\* closing halign.
C7_Witness ==
    \E k \in Objects("FocusingGrating") :
        /\ TanHalf(built[k].angle)[1] = 2
        /\ StubSeparation(k) = built[k].waveguide_w \div 2
        /\ built[built[k].grating].polys[Len(built[built[k].grating].polys)].x0 > 0

C9_CrossPorts ==
    \A k \in Objects("Cross") :
        LET o == built[k]
            h == built[o.waveguide]
            v == built[o.vertical]
            bb == Bounds(h.polys)
        IN  /\ port[o.port.a0] = port[h.port.a0]
            /\ port[o.port.b0] = port[h.port.b0]
            /\ bb.x0 = -bb.x1 /\ bb.y0 = -bb.y1
            /\ port[o.port.a0] = Port(bb.x0, 0, 180, bb.y1 - bb.y0)
            /\ port[o.port.b0] = Port(bb.x1, 0, 0, bb.y1 - bb.y0)
            /\ port[o.port.a1] = Rotate90Port(port[o.port.a0])
            /\ port[o.port.b1] = Rotate90Port(port[o.port.b0])
            /\ o.vertical # o.waveguide
            /\ PortIds(v.port) \cap PortIds(h.port) = {}
            /\ v.polys = Rotate90Polys(h.polys)
            /\ o.polys = h.polys \o v.polys

\* A Cross was built whose a1 lies on the y axis, below the origin.
C9_Witness ==
    \E k \in Objects("Cross") :
        /\ port[built[k].port.a1].x = 0
        /\ port[built[k].port.a1].y < 0
        /\ port[built[k].port.a1].a = 270

\* The Port objects of the patterns a composite was built from or holds.
MemberPortIds(o) ==
    CASE o.cls = "DC" -> PortIds(o.lower_path.port) \cup PortIds(o.upper_path.port)
      [] o.cls = "Cross" -> PortIds(built[o.waveguide].port) \cup PortIds(built[o.vertical].port)
      [] o.cls = "TapDC" -> PortIds(built[o.dc].port) \cup PortIds(built[o.grating].port)
      [] IsDevice(o) -> UNION {PortIds(built[o.entries[j].pat].port) : j \in 1..Len(o.entries)}
      [] OTHER -> {}

\* C10: no Port object of a composite's port mapping is a Port object of a
\* pattern the composite was built from or holds.
C10_NoSharedPorts ==
    \A k \in 1..Len(built) :
        (built[k].exc = "" /\ built[k].cls # "Pattern") =>
            PortIds(built[k].port) \cap MemberPortIds(built[k]) = {}
====
